---- MODULE Spec2Model ----
(***************************************************************************)
(* Model of crossref-rs: the date-parts normalizer of                      *)
(* src/response/work.rs, the query-parameter renderers, routes and topic   *)
(* folding of src/query/mod.rs and the type identifiers of                 *)
(* src/query/types.rs.  Every operation is a pure function of its input;   *)
(* a behaviour is one call: Init draws the operation and its receiver,     *)
(* the operation's action computes the result.                             *)
(*                                                                         *)
(* Option<T> is a sequence of length at most one: None is <<>> and         *)
(* Some(x) is <<x>>.  A Rust string is the sequence of its characters.     *)
(* A panic (an abort of the call) is the result [tag |-> "Panic"].         *)
(***************************************************************************)
EXTENDS Integers, Sequences, FiniteSets

VARIABLES pc, op, arg, res

vars == <<pc, op, arg, res>>

\* ------------------------------------------------------------ bounds
\* longest outer sequence of a date-parts value
MaxOuter == 3
\* longest inner sequence of a date-parts value
MaxInnerLen == 4
\* longest key or value string of a filter
MaxStrLen == 1
\* longest sequence of filters
MaxFilters == 2
\* largest row count and offset
MaxCount == 40
\* longest slice of parameters
MaxParams == 3
\* longest generated identifier of a combined resource
MaxIdLen == 2
\* longest generated topic string
MaxTopicLen == 3
\* longest list of topics
MaxTopics == 2

\* ------------------------------------------------------------ Option
None == <<>>
Some(x) == <<x>>

\* ------------------------------------------------------------ dates
\* `v[0]? as i32`: the u32 -> i32 cast keeps every value up to 2^31 - 1 and
\* wraps the larger ones; the years of YearVals are all below 2^31
as_i32(u) == u

\* chrono's calendar: proleptic Gregorian leap years and month lengths
is_leap_year(y) == (y % 4 = 0) /\ ((y % 100 # 0) \/ (y % 400 = 0))

days_in_month(y, m) ==
    IF m = 2 THEN (IF is_leap_year(y) THEN 29 ELSE 28)
    ELSE IF m \in {4, 6, 9, 11} THEN 30 ELSE 31

\* chrono NaiveDate::from_ymd_opt: None on an out-of-range year, month or day
from_ymd_opt(year, month, day) ==
    IF /\ year >= -262144 /\ year <= 262143
       /\ month >= 1 /\ month <= 12
       /\ day >= 1 /\ day <= days_in_month(year, month)
    THEN Some([year |-> year, month |-> month, day |-> day])
    ELSE None

\* chrono NaiveDate::from_ymd: from_ymd_opt(..).expect(..), a panic on None
from_ymd(year, month, day) ==
    LET d == from_ymd_opt(year, month, day)
    IN  IF d = None THEN [tag |-> "Panic"] ELSE [tag |-> "Some", date |-> d[1]]

NaiveNone == [tag |-> "None"]

\* fn naive(v: &[Option<u32>]) -> Option<NaiveDate>; each `?` returns None
\* before from_ymd is called, arguments are evaluated left to right
naive(v) ==
    IF Len(v) = 1 THEN
        IF v[1] = None THEN NaiveNone
        ELSE from_ymd(as_i32(v[1][1]), 0, 0)
    ELSE IF Len(v) = 2 THEN
        IF v[1] = None \/ v[2] = None THEN NaiveNone
        ELSE from_ymd(as_i32(v[1][1]), v[2][1], 0)
    ELSE IF Len(v) = 3 THEN
        IF v[1] = None \/ v[2] = None \/ v[3] = None THEN NaiveNone
        ELSE from_ymd(as_i32(v[1][1]), v[2][1], v[3][1])
    ELSE NaiveNone

\* self.0.iter().map(|x| naive(x)).collect::<Option<Vec<_>>>(): the items are
\* decoded in order; the first None ends the iteration, a panic aborts it
RECURSIVE collect(_, _, _)
collect(dp, i, acc) ==
    IF i > Len(dp) THEN [tag |-> "Some", dates |-> acc]
    ELSE LET n == naive(dp[i])
         IN  IF n.tag = "Panic" THEN [tag |-> "Panic"]
             ELSE IF n.tag = "None" THEN [tag |-> "None"]
             ELSE collect(dp, i + 1, Append(acc, n.date))

\* a is strictly earlier than b
date_before(a, b) ==
    \/ a.year < b.year
    \/ a.year = b.year /\ a.month < b.month
    \/ a.year = b.year /\ a.month = b.month /\ a.day < b.day

\* as_date with a range put in chronological order
as_date_ordered_range(dp) ==
    IF Len(dp) = 0 THEN [tag |-> "None"]
    ELSE IF Len(dp) = 1 THEN
        LET n == naive(dp[1])
        IN  IF n.tag = "Some" THEN [tag |-> "Single", date |-> n.date]
            ELSE [tag |-> n.tag]
    ELSE IF Len(dp) = 2 THEN
        LET from == naive(dp[1])
        IN  IF from.tag # "Some" THEN [tag |-> from.tag]
            ELSE LET to == naive(dp[2])
                 IN  IF to.tag # "Some" THEN [tag |-> to.tag]
                     ELSE IF date_before(to.date, from.date)
                     THEN [tag |-> "Range", from |-> to.date, to |-> from.date]
                     ELSE [tag |-> "Range", from |-> from.date, to |-> to.date]
    ELSE
        LET c == collect(dp, 1, <<>>)
        IN  IF c.tag = "Some" THEN [tag |-> "Multi", dates |-> c.dates]
            ELSE [tag |-> c.tag]

\* DateParts::as_date
as_date(dp) ==
    IF Len(dp) = 0 THEN [tag |-> "None"]
    ELSE IF Len(dp) = 1 THEN
        LET n == naive(dp[1])
        IN  IF n.tag = "Some" THEN [tag |-> "Single", date |-> n.date]
            ELSE [tag |-> n.tag]
    ELSE IF Len(dp) = 2 THEN
        LET from == naive(dp[1])
        IN  IF from.tag # "Some" THEN [tag |-> from.tag]
            ELSE LET to == naive(dp[2])
                 IN  IF to.tag # "Some" THEN [tag |-> to.tag]
                     ELSE [tag |-> "Range", from |-> from.date, to |-> to.date]
    ELSE
        LET c == collect(dp, 1, <<>>)
        IN  IF c.tag = "Some" THEN [tag |-> "Multi", dates |-> c.dates]
            ELSE [tag |-> c.tag]

\* ------------------------------------------------------------ inputs
Opt(S) == {None} \cup {Some(x) : x \in S}

YearVals == {2017, 2019, 2020, 2100, 300000}
MonthVals == {0, 2, 10, 12, 13}
DayVals == {0, 11, 29, 30, 31, 32}
ExtraVals == {1}

CompVals(i) ==
    IF i = 1 THEN YearVals ELSE IF i = 2 THEN MonthVals
    ELSE IF i = 3 THEN DayVals ELSE ExtraVals

\* every inner sequence of length n over the component values
RECURSIVE InnerOfLen(_)
InnerOfLen(n) ==
    IF n = 0 THEN {<<>>}
    ELSE {Append(v, c) : v \in InnerOfLen(n - 1), c \in Opt(CompVals(n))}

AllInners == UNION {InnerOfLen(n) : n \in 0..MaxInnerLen}

\* inner sequences of the longer date-parts values: one of each outcome
InnerSamples ==
    { <<>>,
      <<None>>,
      <<Some(2019)>>,
      <<Some(2020)>>,
      <<Some(2021)>>,
      <<Some(2021), None>>,
      <<Some(2019), Some(12), Some(31)>>,
      <<Some(2017), Some(10), Some(11)>>,
      <<Some(2020), Some(2), Some(29)>>,
      <<Some(2020), Some(13), Some(1)>> }

DateInputs ==
    {<<>>} \cup {<<v>> : v \in AllInners}
           \cup UNION {[1..n -> InnerSamples] : n \in 2..MaxOuter}

\* ------------------------------------------------------------ strings
\* format!("{}{}", a, b) is a \o b; a string literal is written out by character

\* usize::to_string: the decimal digits, most significant first
DigitChars == <<"0", "1", "2", "3", "4", "5", "6", "7", "8", "9">>

RECURSIVE to_string(_)
to_string(n) ==
    IF n < 10 THEN <<DigitChars[n + 1]>>
    ELSE to_string(n \div 10) \o <<DigitChars[(n % 10) + 1]>>

\* [T]::join(sep) on a sequence of strings
RECURSIVE join(_, _)
join(parts, sep) ==
    IF Len(parts) = 0 THEN <<>>
    ELSE IF Len(parts) = 1 THEN parts[1]
    ELSE parts[1] \o sep \o join(Tail(parts), sep)

\* ------------------------------------------------------------ parameters
\* CrossrefQueryParam::param on the receiver's param_key and param_value
param(key, value) ==
    IF value # None THEN key \o <<"=">> \o value[1] ELSE key

\* ParamFragment::fragment of a filter f = [key, value]
fragment(f) ==
    IF f.value # None THEN f.key \o <<":">> \o f.value[1] ELSE f.key

\* impl CrossrefQueryParam for Vec<T: Filter>
Vec_param_key(fs) == <<"f", "i", "l", "t", "e", "r">>

Vec_param_value_trailing(fs) ==
    Some(join([i \in 1..Len(fs) |-> fragment(fs[i])], <<",">>)
         \o (IF Len(fs) > 0 THEN <<",">> ELSE <<>>))

Vec_param_value(fs) ==
    Some(join([i \in 1..Len(fs) |-> fragment(fs[i])], <<",">>))

Vec_param(fs) == param(Vec_param_key(fs), Vec_param_value(fs))

\* Order::as_str
Order_as_str(o) ==
    CASE o = "Asc" -> <<"a", "s", "c">>
      [] o = "Desc" -> <<"d", "e", "s", "c">>

\* Sort::as_str with the token of PublishedPrint repeated for PublishedOnline
Sort_as_str_repeated(s) ==
    CASE s = "Score" -> <<"s", "c", "o", "r", "e">>
      [] s = "Updated" -> <<"u", "p", "d", "a", "t", "e", "d">>
      [] s = "Deposited" -> <<"d", "e", "p", "o", "s", "i", "t", "e", "d">>
      [] s = "Indexed" -> <<"i", "n", "d", "e", "x", "e", "d">>
      [] s = "Published" -> <<"p", "u", "b", "l", "i", "s", "h", "e", "d">>
      [] s = "PublishedPrint" -> <<"p", "u", "b", "l", "i", "s", "h", "e", "d", "-", "p", "r", "i", "n", "t">>
      [] s = "PublishedOnline" -> <<"p", "u", "b", "l", "i", "s", "h", "e", "d", "-", "p", "r", "i", "n", "t">>
      [] s = "Issued" -> <<"i", "s", "s", "u", "e", "d">>
      [] s = "IsReferencedByCount" -> <<"i", "s", "-", "r", "e", "f", "e", "r", "e", "n", "c", "e", "-", "b", "y", "-", "c", "o", "u", "n", "t">>
      [] s = "ReferenceCount" -> <<"r", "e", "f", "e", "r", "e", "n", "c", "e", "-", "c", "o", "u", "n", "t">>

\* Sort::as_str
Sort_as_str(s) ==
    CASE s = "Score" -> <<"s", "c", "o", "r", "e">>
      [] s = "Updated" -> <<"u", "p", "d", "a", "t", "e", "d">>
      [] s = "Deposited" -> <<"d", "e", "p", "o", "s", "i", "t", "e", "d">>
      [] s = "Indexed" -> <<"i", "n", "d", "e", "x", "e", "d">>
      [] s = "Published" -> <<"p", "u", "b", "l", "i", "s", "h", "e", "d">>
      [] s = "PublishedPrint" -> <<"p", "u", "b", "l", "i", "s", "h", "e", "d", "-", "p", "r", "i", "n", "t">>
      [] s = "PublishedOnline" -> <<"p", "u", "b", "l", "i", "s", "h", "e", "d", "-", "o", "n", "l", "i", "n", "e">>
      [] s = "Issued" -> <<"i", "s", "s", "u", "e", "d">>
      [] s = "IsReferencedByCount" -> <<"i", "s", "-", "r", "e", "f", "e", "r", "e", "n", "c", "e", "-", "b", "y", "-", "c", "o", "u", "n", "t">>
      [] s = "ReferenceCount" -> <<"r", "e", "f", "e", "r", "e", "n", "c", "e", "-", "c", "o", "u", "n", "t">>

\* impl CrossrefQueryParam for ResultControl
ResultControl_param_key_flat(rc) ==
    CASE rc.tag = "Rows" -> <<"r", "o", "w", "s">>
      [] rc.tag = "Offset" -> <<"o", "f", "f", "s", "e", "t">>
      [] rc.tag = "RowsOffset" -> <<"r", "o", "w", "s">>
      [] rc.tag = "Sample" -> <<"s", "a", "m", "p", "l", "e">>

ResultControl_param_key(rc) ==
    CASE rc.tag = "Rows" -> <<"r", "o", "w", "s">>
      [] rc.tag = "Offset" -> <<"o", "f", "f", "s", "e", "t">>
      [] rc.tag = "RowsOffset" -> <<"r", "o", "w", "s", "=">> \o to_string(rc.rows)
      [] rc.tag = "Sample" -> <<"s", "a", "m", "p", "l", "e">>

ResultControl_param_value_empty_sample(rc) ==
    CASE rc.tag = "Rows" -> Some(to_string(rc.rows))
      [] rc.tag = "Offset" -> Some(to_string(rc.offset))
      [] rc.tag = "RowsOffset" -> Some(<<"o", "f", "f", "s", "e", "t", "=">> \o to_string(rc.offset))
      [] rc.tag = "Sample" -> Some(<<>>)

ResultControl_param_value(rc) ==
    CASE rc.tag = "Rows" -> Some(to_string(rc.rows))
      [] rc.tag = "Offset" -> Some(to_string(rc.offset))
      [] rc.tag = "RowsOffset" -> Some(<<"o", "f", "f", "s", "e", "t", "=">> \o to_string(rc.offset))
      [] rc.tag = "Sample" -> None

ResultControl_param(rc) ==
    param(ResultControl_param_key(rc), ResultControl_param_value(rc))

\* impl CrossrefQueryParam for (T, T): the pair t = <<key, value>>
Tuple_param_key(t) == t[1]

Tuple_param_value(t) == Some(t[2])

Tuple_param(t) == param(Tuple_param_key(t), Tuple_param_value(t))

\* impl CrossrefRoute for AsRef<[T]>, on a slice of pairs: always Ok
slice_route(ps) ==
    join([i \in 1..Len(ps) |-> Tuple_param(ps[i])], <<"&">>)

\* ------------------------------------------------------------ query inputs
Chars == {"a", ","}

StrsUpTo(n) == UNION {[1..k -> Chars] : k \in 0..n}

Filters == [key : StrsUpTo(MaxStrLen), value : Opt(StrsUpTo(MaxStrLen))]

FilterInputs == UNION {[1..n -> Filters] : n \in 0..MaxFilters}

Counts == 0..MaxCount

ResultControls ==
    {[tag |-> "Rows", rows |-> n] : n \in Counts}
    \cup {[tag |-> "Offset", offset |-> n] : n \in Counts}
    \cup {[tag |-> "RowsOffset", rows |-> n, offset |-> m] : n \in Counts, m \in Counts}
    \cup {[tag |-> "Sample"]}

\* the four kinds of parameter as key/value pairs
ParamTuples ==
    {<<Vec_param_key(fs), Vec_param_value(fs)[1]>> :
        fs \in {<<[key |-> <<"a">>, value |-> Some(<<"a">>)]>>}}
    \cup {<<<<"s", "o", "r", "t">>, Sort_as_str(x)>> : x \in {"Score", "Updated"}}
    \cup {<<<<"o", "r", "d", "e", "r">>, Order_as_str(o)>> : o \in {"Asc", "Desc"}}
    \cup {<<ResultControl_param_key(rc), ResultControl_param_value(rc)[1]>> :
        rc \in {[tag |-> "Rows", rows |-> 20]}}

SliceInputs == UNION {[1..n -> ParamTuples] : n \in 0..MaxParams}

\* ------------------------------------------------------------ routes
\* Component::as_str
Component_as_str(c) ==
    CASE c = "Works" -> <<"w", "o", "r", "k", "s">>
      [] c = "Funders" -> <<"f", "u", "n", "d", "e", "r", "s">>
      [] c = "Prefixes" -> <<"p", "r", "e", "f", "i", "x", "e", "s">>
      [] c = "Members" -> <<"m", "e", "m", "b", "e", "r", "s">>
      [] c = "Types" -> <<"t", "y", "p", "e", "s">>
      [] c = "Journals" -> <<"j", "o", "u", "r", "n", "a", "l", "s">>

\* impl CrossrefRoute for Component: Ok(format!("/{}", self.as_str()))
Component_route(c) == [tag |-> "Ok", route |-> <<"/">> \o Component_as_str(c)]

\* ResourceComponent::route with the primary's route as the trailing segment
ResourceComponent_route_primary_suffix(rc) ==
    IF rc.tag = "Single" THEN Component_route(rc.component)
    ELSE [tag |-> "Ok",
          route |-> Component_route(rc.primary).route \o <<"/">> \o rc.identifier
                    \o Component_route(rc.primary).route]

\* impl CrossrefRoute for ResourceComponent; the two `?` never return, as
\* Component::route is always Ok
ResourceComponent_route(rc) ==
    IF rc.tag = "Single" THEN Component_route(rc.component)
    ELSE [tag |-> "Ok",
          route |-> Component_route(rc.primary).route \o <<"/">> \o rc.identifier
                    \o Component_route("Works").route]

Components == {"Works", "Funders", "Prefixes", "Members", "Types", "Journals"}

IdChars == {"1", "/"}

\* identifiers: every short string over IdChars and a funder DOI
Identifiers ==
    UNION {[1..k -> IdChars] : k \in 0..MaxIdLen} \cup {<<"1", "0", ".", "1", "3", "0", "3", "9", "/", "1", "0", "0", "0", "0", "0", "0", "0", "1">>}

ResourceComponents ==
    {[tag |-> "Single", component |-> c] : c \in Components}
    \cup {[tag |-> "Combined", primary |-> c, identifier |-> id] :
            c \in Components, id \in Identifiers}

\* ------------------------------------------------------------ topics
\* char::is_whitespace, on the characters of the model
WhitespaceChars == {" ", "\t", "\n"}

is_whitespace(c) == c \in WhitespaceChars

\* str::split_whitespace: the maximal runs of non-whitespace characters
RECURSIVE split_whitespace_from(_, _, _, _)
split_whitespace_from(s, i, cur, out) ==
    IF i > Len(s) THEN (IF cur # <<>> THEN Append(out, cur) ELSE out)
    ELSE IF is_whitespace(s[i]) THEN
        split_whitespace_from(s, i + 1, <<>>,
                              IF cur # <<>> THEN Append(out, cur) ELSE out)
    ELSE split_whitespace_from(s, i + 1, Append(cur, s[i]), out)

split_whitespace(s) == split_whitespace_from(s, 1, <<>>, <<>>)

\* format_query with every whitespace character replaced by `+`
format_query_replace_each(topic) ==
    [i \in 1..Len(topic) |-> IF is_whitespace(topic[i]) THEN "+" ELSE topic[i]]

\* fn format_query
format_query(topic) == join(split_whitespace(topic), <<"+">>)

\* format_queries with the topics joined by a space
format_queries_space_joined(topics) ==
    join([i \in 1..Len(topics) |-> format_query(topics[i])], <<" ">>)

\* fn format_queries
format_queries(topics) ==
    join([i \in 1..Len(topics) |-> format_query(topics[i])], <<"+">>)

TopicChars == {"a", " "}

\* topics: every short string over TopicChars, and some with other
\* whitespace, with `+` and with longer words
TopicStrs ==
    UNION {[1..k -> TopicChars] : k \in 0..MaxTopicLen}
    \cup { <<"a", "\t", " ", "b">>, <<"\n", "a", "\t">>, <<"+">>, <<"a", "+">>,
           <<"+", "b">>, <<"h", "e", "l", "l", "o", " ", " ", " ", "w", "o", "r", "l", "d">>, <<"f", "o", "o">> }

TopicLists == UNION {[1..n -> TopicStrs] : n \in 0..MaxTopics}

\* ------------------------------------------------------------ types
\* enum Type
Types ==
    {"BookSection", "Monograph", "Report", "PeerReview",
     "BookTrack", "JournalArticle", "BookPart", "Other",
     "Book", "JournalVolume", "BookSet", "ReferenceEntry",
     "ProceedingsArticle", "Journal", "Component", "BookChapter",
     "ProceedingsSeries", "ReportSeries", "Proceedings", "Standard",
     "ReferenceBook", "PostedContent", "JournalIssue", "Dissertation",
     "Dataset", "BookSeries", "EditedBook", "StandardSeries"}

\* Type::id
Type_id(t) ==
    CASE t = "BookSection" -> <<"b", "o", "o", "k", "-", "s", "e", "c", "t", "i", "o", "n">>
      [] t = "Monograph" -> <<"m", "o", "n", "o", "g", "r", "a", "p", "h">>
      [] t = "Report" -> <<"r", "e", "p", "o", "r", "t">>
      [] t = "PeerReview" -> <<"p", "e", "e", "r", "-", "r", "e", "v", "i", "e", "w">>
      [] t = "BookTrack" -> <<"b", "o", "o", "k", "-", "t", "r", "a", "c", "k">>
      [] t = "JournalArticle" -> <<"j", "o", "u", "r", "n", "a", "l", "-", "a", "r", "t", "i", "c", "l", "e">>
      [] t = "BookPart" -> <<"b", "o", "o", "k", "-", "p", "a", "r", "t">>
      [] t = "Other" -> <<"o", "t", "h", "e", "r">>
      [] t = "Book" -> <<"b", "o", "o", "k">>
      [] t = "JournalVolume" -> <<"j", "o", "u", "r", "n", "a", "l", "-", "v", "o", "l", "u", "m", "e">>
      [] t = "BookSet" -> <<"b", "o", "o", "k", "-", "s", "e", "t">>
      [] t = "ReferenceEntry" -> <<"r", "e", "f", "e", "r", "e", "n", "c", "e", "-", "e", "n", "t", "r", "y">>
      [] t = "ProceedingsArticle" -> <<"p", "r", "o", "c", "e", "e", "d", "i", "n", "g", "s", "-", "a", "r", "t", "i", "c", "l", "e">>
      [] t = "Journal" -> <<"j", "o", "u", "r", "n", "a", "l">>
      [] t = "Component" -> <<"c", "o", "m", "p", "o", "n", "e", "n", "t">>
      [] t = "BookChapter" -> <<"b", "o", "o", "k", "-", "c", "h", "a", "p", "t", "e", "r">>
      [] t = "ProceedingsSeries" -> <<"p", "r", "o", "c", "e", "e", "d", "i", "n", "g", "s", "-", "s", "e", "r", "i", "e", "s">>
      [] t = "ReportSeries" -> <<"r", "e", "p", "o", "r", "t", "-", "s", "e", "r", "i", "e", "s">>
      [] t = "Proceedings" -> <<"p", "r", "o", "c", "e", "e", "d", "i", "n", "g", "s">>
      [] t = "Standard" -> <<"s", "t", "a", "n", "d", "a", "r", "d">>
      [] t = "ReferenceBook" -> <<"r", "e", "f", "e", "r", "e", "n", "c", "e", "-", "b", "o", "o", "k">>
      [] t = "PostedContent" -> <<"p", "o", "s", "t", "e", "d", "-", "c", "o", "n", "t", "e", "n", "t">>
      [] t = "JournalIssue" -> <<"j", "o", "u", "r", "n", "a", "l", "-", "i", "s", "s", "u", "e">>
      [] t = "Dissertation" -> <<"d", "i", "s", "s", "e", "r", "t", "a", "t", "i", "o", "n">>
      [] t = "Dataset" -> <<"d", "a", "t", "a", "s", "e", "t">>
      [] t = "BookSeries" -> <<"b", "o", "o", "k", "-", "s", "e", "r", "i", "e", "s">>
      [] t = "EditedBook" -> <<"e", "d", "i", "t", "e", "d", "-", "b", "o", "o", "k">>
      [] t = "StandardSeries" -> <<"s", "t", "a", "n", "d", "a", "r", "d", "-", "s", "e", "r", "i", "e", "s">>

\* the arms of Type::from_str that name a type; None when no arm matches
Type_match(s) ==
    CASE s = <<"b", "o", "o", "k", "-", "s", "e", "c", "t", "i", "o", "n">> -> Some("BookSection")
      [] s = <<"m", "o", "n", "o", "g", "r", "a", "p", "h">> -> Some("Monograph")
      [] s = <<"r", "e", "p", "o", "r", "t">> -> Some("Report")
      [] s = <<"p", "e", "e", "r", "-", "r", "e", "v", "i", "e", "w">> -> Some("PeerReview")
      [] s = <<"b", "o", "o", "k", "-", "t", "r", "a", "c", "k">> -> Some("BookTrack")
      [] s = <<"j", "o", "u", "r", "n", "a", "l", "-", "a", "r", "t", "i", "c", "l", "e">> -> Some("JournalArticle")
      [] s = <<"b", "o", "o", "k", "-", "p", "a", "r", "t">> -> Some("BookPart")
      [] s = <<"o", "t", "h", "e", "r">> -> Some("Other")
      [] s = <<"b", "o", "o", "k">> -> Some("Book")
      [] s = <<"j", "o", "u", "r", "n", "a", "l", "-", "v", "o", "l", "u", "m", "e">> -> Some("JournalVolume")
      [] s = <<"b", "o", "o", "k", "-", "s", "e", "t">> -> Some("BookSet")
      [] s = <<"r", "e", "f", "e", "r", "e", "n", "c", "e", "-", "e", "n", "t", "r", "y">> -> Some("ReferenceEntry")
      [] s = <<"p", "r", "o", "c", "e", "e", "d", "i", "n", "g", "s", "-", "a", "r", "t", "i", "c", "l", "e">> -> Some("ProceedingsArticle")
      [] s = <<"j", "o", "u", "r", "n", "a", "l">> -> Some("Journal")
      [] s = <<"c", "o", "m", "p", "o", "n", "e", "n", "t">> -> Some("Component")
      [] s = <<"b", "o", "o", "k", "-", "c", "h", "a", "p", "t", "e", "r">> -> Some("BookChapter")
      [] s = <<"p", "r", "o", "c", "e", "e", "d", "i", "n", "g", "s", "-", "s", "e", "r", "i", "e", "s">> -> Some("ProceedingsSeries")
      [] s = <<"r", "e", "p", "o", "r", "t", "-", "s", "e", "r", "i", "e", "s">> -> Some("ReportSeries")
      [] s = <<"p", "r", "o", "c", "e", "e", "d", "i", "n", "g", "s">> -> Some("Proceedings")
      [] s = <<"s", "t", "a", "n", "d", "a", "r", "d">> -> Some("Standard")
      [] s = <<"r", "e", "f", "e", "r", "e", "n", "c", "e", "-", "b", "o", "o", "k">> -> Some("ReferenceBook")
      [] s = <<"p", "o", "s", "t", "e", "d", "-", "c", "o", "n", "t", "e", "n", "t">> -> Some("PostedContent")
      [] s = <<"j", "o", "u", "r", "n", "a", "l", "-", "i", "s", "s", "u", "e">> -> Some("JournalIssue")
      [] s = <<"d", "i", "s", "s", "e", "r", "t", "a", "t", "i", "o", "n">> -> Some("Dissertation")
      [] s = <<"d", "a", "t", "a", "s", "e", "t">> -> Some("Dataset")
      [] s = <<"b", "o", "o", "k", "-", "s", "e", "r", "i", "e", "s">> -> Some("BookSeries")
      [] s = <<"e", "d", "i", "t", "e", "d", "-", "b", "o", "o", "k">> -> Some("EditedBook")
      [] s = <<"s", "t", "a", "n", "d", "a", "r", "d", "-", "s", "e", "r", "i", "e", "s">> -> Some("StandardSeries")
      [] OTHER -> None

\* Type::from_str with an unknown name read as Type::Other
Type_from_str_coerce(s) ==
    IF Type_match(s) # None THEN [tag |-> "Ok", type |-> Type_match(s)[1]]
    ELSE [tag |-> "Ok", type |-> "Other"]

\* impl FromStr for Type: the last arm is
\* Err(ErrorKind::InvalidTypeName { name: name.to_string() })
Type_from_str(s) ==
    IF Type_match(s) # None THEN [tag |-> "Ok", type |-> Type_match(s)[1]]
    ELSE [tag |-> "Err", kind |-> "InvalidTypeName", name |-> s]

\* strings to parse: every identifier, every identifier cut short by one
\* character or extended by one, the empty string and three near misses
TypeNames ==
    {Type_id(t) : t \in Types}
    \cup {SubSeq(Type_id(t), 1, Len(Type_id(t)) - 1) : t \in Types}
    \cup {Type_id(t) \o <<"s">> : t \in Types}
    \cup {<<>>, <<"B", "o", "o", "k">>, <<"B", "o", "o", "k", " ", "S", "e", "c", "t", "i", "o", "n">>, <<"b", "o", "o", "k", "_", "s", "e", "c", "t", "i", "o", "n">>}

\* ------------------------------------------------------------ sort, order
\* impl CrossrefQueryParam for Order
Order_param_key(o) == <<"o", "r", "d", "e", "r">>

Order_param_value(o) == Some(Order_as_str(o))

Order_param(o) == param(Order_param_key(o), Order_param_value(o))

\* impl CrossrefQueryParam for Sort
Sort_param_key(x) == <<"s", "o", "r", "t">>

Sort_param_value(x) == Some(Sort_as_str(x))

Sort_param(x) == param(Sort_param_key(x), Sort_param_value(x))

\* enum Order
Orders == {"Asc", "Desc"}

\* enum Sort
Sorts ==
    {"Score", "Updated", "Deposited", "Indexed", "Published", "PublishedPrint",
     "PublishedOnline", "Issued", "IsReferencedByCount", "ReferenceCount"}

\* ------------------------------------------------------------ date containers
\* Date::as_date_field with a zero timestamp read as no date
Date_as_date_field_epoch(d) ==
    IF d.timestamp = 0 THEN [tag |-> "None"] ELSE as_date(d.date_parts)

\* Date::as_date_field
Date_as_date_field(d) == as_date(d.date_parts)

\* PartialDate::as_date_field
PartialDate_as_date_field(p) == as_date(p.date_parts)

\* Date.timestamp: seconds since the epoch
Timestamps == {0, 1507680000}

\* Date.date_time: ISO 8601 text
DateTimes == {<<>>, <<"2", "0", "1", "7", "-", "1", "0", "-", "1", "1", "T", "0", "0", ":", "0", "0", ":", "0", "0", "Z">>}

\* struct Date
Dates == [date_parts : DateInputs, timestamp : Timestamps, date_time : DateTimes]

\* struct PartialDate
PartialDates == [date_parts : DateInputs]

\* ------------------------------------------------------------ behaviour
NoResult == [tag |-> "NoResult"]

Init ==
    /\ pc = "ready"
    /\ res = NoResult
    /\ \/ op = "as_date" /\ arg \in DateInputs
       \/ op = "vec_param" /\ arg \in FilterInputs
       \/ op = "result_control_param" /\ arg \in ResultControls
       \/ op = "slice_route" /\ arg \in SliceInputs
       \/ op = "resource_route" /\ arg \in ResourceComponents
       \/ op = "format_query" /\ arg \in TopicStrs
       \/ op = "format_queries" /\ arg \in TopicLists
       \/ op = "type_round_trip" /\ arg \in Types
       \/ op = "type_from_str" /\ arg \in TypeNames
       \/ op = "sort_param" /\ arg \in Sorts
       \/ op = "order_param" /\ arg \in Orders
       \/ op = "date_as_date_field" /\ arg \in Dates
       \/ op = "partial_date_as_date_field" /\ arg \in PartialDates

\* a call of DateParts::as_date on the receiver arg
AsDate ==
    /\ pc = "ready" /\ op = "as_date"
    /\ res' = as_date(arg)
    /\ pc' = "done"
    /\ UNCHANGED <<op, arg>>

\* a call of param() on a Vec of filters: param_key, param_value and param
VecParam ==
    /\ pc = "ready" /\ op = "vec_param"
    /\ res' = [key |-> Vec_param_key(arg),
               value |-> Vec_param_value(arg),
               param |-> Vec_param(arg)]
    /\ pc' = "done"
    /\ UNCHANGED <<op, arg>>

\* a call of param() on a ResultControl
ResultControlParam ==
    /\ pc = "ready" /\ op = "result_control_param"
    /\ res' = [key |-> ResultControl_param_key(arg),
               value |-> ResultControl_param_value(arg),
               param |-> ResultControl_param(arg)]
    /\ pc' = "done"
    /\ UNCHANGED <<op, arg>>

\* a call of route() on a slice of parameters
SliceRoute ==
    /\ pc = "ready" /\ op = "slice_route"
    /\ res' = [tag |-> "Ok", route |-> slice_route(arg)]
    /\ pc' = "done"
    /\ UNCHANGED <<op, arg>>

\* a call of route() on a ResourceComponent
ResourceRoute ==
    /\ pc = "ready" /\ op = "resource_route"
    /\ res' = ResourceComponent_route(arg)
    /\ pc' = "done"
    /\ UNCHANGED <<op, arg>>

\* a call of format_query on the topic arg
FormatQuery ==
    /\ pc = "ready" /\ op = "format_query"
    /\ res' = format_query(arg)
    /\ pc' = "done"
    /\ UNCHANGED <<op, arg>>

\* a call of format_queries on the topics arg
FormatQueries ==
    /\ pc = "ready" /\ op = "format_queries"
    /\ res' = format_queries(arg)
    /\ pc' = "done"
    /\ UNCHANGED <<op, arg>>

\* Type::from_str(t.id()) for the type arg
TypeRoundTrip ==
    /\ pc = "ready" /\ op = "type_round_trip"
    /\ res' = Type_from_str(Type_id(arg))
    /\ pc' = "done"
    /\ UNCHANGED <<op, arg>>

\* a call of Type::from_str on the string arg
TypeFromStr ==
    /\ pc = "ready" /\ op = "type_from_str"
    /\ res' = Type_from_str(arg)
    /\ pc' = "done"
    /\ UNCHANGED <<op, arg>>

\* a call of param() on a Sort
SortParam ==
    /\ pc = "ready" /\ op = "sort_param"
    /\ res' = [key |-> Sort_param_key(arg),
               value |-> Sort_param_value(arg),
               param |-> Sort_param(arg)]
    /\ pc' = "done"
    /\ UNCHANGED <<op, arg>>

\* a call of param() on an Order
OrderParam ==
    /\ pc = "ready" /\ op = "order_param"
    /\ res' = [key |-> Order_param_key(arg),
               value |-> Order_param_value(arg),
               param |-> Order_param(arg)]
    /\ pc' = "done"
    /\ UNCHANGED <<op, arg>>

\* a call of Date::as_date_field(&self)
DateAsDateField ==
    /\ pc = "ready" /\ op = "date_as_date_field"
    /\ res' = Date_as_date_field(arg)
    /\ pc' = "done"
    /\ UNCHANGED <<op, arg>>

\* a call of PartialDate::as_date_field(&self)
PartialDateAsDateField ==
    /\ pc = "ready" /\ op = "partial_date_as_date_field"
    /\ res' = PartialDate_as_date_field(arg)
    /\ pc' = "done"
    /\ UNCHANGED <<op, arg>>

Next ==
    \/ AsDate
    \/ VecParam
    \/ ResultControlParam
    \/ SliceRoute
    \/ ResourceRoute
    \/ FormatQuery
    \/ FormatQueries
    \/ TypeRoundTrip
    \/ TypeFromStr
    \/ SortParam
    \/ OrderParam
    \/ DateAsDateField
    \/ PartialDateAsDateField

Spec == Init /\ [][Next]_vars

\* ------------------------------------------------------------ date claims
AsDateDone == pc = "done" /\ op = "as_date"

\* every component of the inner sequence v is present
AllPresent(v) == \A i \in 1..Len(v) : v[i] # None

\* the inner sequence v fails to decode in the sense of the specification:
\* it has no components, more than three, or an absent component
FailsToDecode(v) == Len(v) = 0 \/ Len(v) > 3 \/ ~AllPresent(v)

\* C1: an inner sequence of length 1, 2 or 3 whose components are all present
\* decodes to a date carrying the given year, month and day, so that a
\* one-element date-parts value normalizes to Single; [[2017,10,11]] is
\* Single(2017-10-11), [[2020],[2021]] a Range and [[2019],[2020],[2021]] a
\* Multi of three dates.
C1_InnerDecodingByLength ==
    AsDateDone =>
      /\ (Len(arg) = 1 /\ Len(arg[1]) \in 1..3 /\ AllPresent(arg[1])) =>
            /\ res.tag = "Single"
            /\ res.date.year = arg[1][1][1]
            /\ Len(arg[1]) >= 2 => res.date.month = arg[1][2][1]
            /\ Len(arg[1]) = 3 => res.date.day = arg[1][3][1]
      /\ arg = <<<<Some(2017), Some(10), Some(11)>>>> =>
            res = [tag |-> "Single", date |-> [year |-> 2017, month |-> 10, day |-> 11]]
      /\ arg = <<<<Some(2020)>>, <<Some(2021)>>>> =>
            res.tag = "Range" /\ res.from.year = 2020 /\ res.to.year = 2021
      /\ arg = <<<<Some(2019)>>, <<Some(2020)>>, <<Some(2021)>>>> =>
            res.tag = "Multi" /\ Len(res.dates) = 3

\* C2: when every inner sequence decodes to a date, the outer length alone
\* fixes the variant: 1 gives Single(decode(inner 0)), 2 gives Range{from:
\* decode(inner 0), to: decode(inner 1)} as given (never swapped), and n >= 3
\* gives Multi of exactly n dates in input order.
C2_VariantByOuterLength ==
    (AsDateDone /\ Len(arg) >= 1 /\ \A i \in 1..Len(arg) : naive(arg[i]).tag = "Some") =>
      /\ Len(arg) = 1 =>
            res.tag = "Single" /\ res.date = naive(arg[1]).date
      /\ Len(arg) = 2 =>
            /\ res.tag = "Range"
            /\ res.from = naive(arg[1]).date
            /\ res.to = naive(arg[2]).date
      /\ Len(arg) >= 3 =>
            /\ res.tag = "Multi"
            /\ Len(res.dates) = Len(arg)
            /\ \A i \in 1..Len(arg) : res.dates[i] = naive(arg[i]).date

\* C2 witness: a range whose from is later than its to was stored as given
C2_Witness ==
    /\ AsDateDone /\ Len(arg) = 2
    /\ res.tag = "Range"
    /\ date_before(res.to, res.from)

\* C3: with three or more inner sequences, one inner sequence whose year is
\* absent makes the whole normalization return no date, whatever its position.
C3_MultiAllOrNothing ==
    (/\ AsDateDone /\ Len(arg) >= 3
     /\ \E i \in 1..Len(arg) : Len(arg[i]) >= 1 /\ arg[i][1] = None)
      => res.tag = "None"

\* C4: an empty outer sequence gives no date, and so does an outer sequence of
\* length 1 or 2 with an inner sequence that fails to decode.
C4_NoDateOutcomes ==
    (/\ AsDateDone
     /\ \/ Len(arg) = 0
        \/ Len(arg) \in {1, 2} /\ \E i \in 1..Len(arg) : FailsToDecode(arg[i]))
      => res.tag = "None"

\* C5: normalization is total: every call returns no date or a DateField and
\* never aborts.
C5_AsDateTotal ==
    AsDateDone => res.tag \in {"None", "Single", "Range", "Multi"}

\* ------------------------------------------------------------ query claims
\* str::split(c): the pieces of s between the occurrences of the character c
RECURSIVE split_from(_, _, _, _, _)
split_from(s, c, i, cur, out) ==
    IF i > Len(s) THEN Append(out, cur)
    ELSE IF s[i] = c THEN split_from(s, c, i + 1, <<>>, Append(out, cur))
    ELSE split_from(s, c, i + 1, Append(cur, s[i]), out)

split(s, c) == split_from(s, c, 1, <<>>, <<>>)

\* the character c occurs in s
contains(s, c) == \E i \in 1..Len(s) : s[i] = c

\* s starts with t
starts_with(s, t) == Len(s) >= Len(t) /\ SubSeq(s, 1, Len(t)) = t

\* the number a digit string denotes
RECURSIVE digits_value(_)
digits_value(s) ==
    IF Len(s) = 0 THEN 0
    ELSE digits_value(SubSeq(s, 1, Len(s) - 1)) * 10
         + (CHOOSE d \in 0..9 : DigitChars[d + 1] = s[Len(s)])

\* s is the decimal numeral of n, without sign or leading zeros
is_decimal_of(s, n) ==
    /\ Len(s) >= 1
    /\ \A i \in 1..Len(s) : \E d \in 0..9 : DigitChars[d + 1] = s[i]
    /\ Len(s) > 1 => s[1] # "0"
    /\ digits_value(s) = n

\* q is a rearrangement of p
is_permutation(p, q) ==
    /\ Len(p) = Len(q)
    /\ \E f \in [1..Len(p) -> 1..Len(p)] :
          /\ \A i, j \in 1..Len(p) : i # j => f[i] # f[j]
          /\ \A i \in 1..Len(p) : q[i] = p[f[i]]

VecParamDone == pc = "done" /\ op = "vec_param"
ResultControlDone == pc = "done" /\ op = "result_control_param"
SliceRouteDone == pc = "done" /\ op = "slice_route"

\* the fragments of the filters, in order
fragments(fs) == [i \in 1..Len(fs) |-> fragment(fs[i])]

\* no key and no value of the filters holds a comma
comma_free(fs) ==
    \A i \in 1..Len(fs) :
        /\ ~contains(fs[i].key, ",")
        /\ fs[i].value # None => ~contains(fs[i].value[1], ",")

\* C6 as stated: for every non-empty sequence of filters, with any key and
\* value strings, the filter value split on `,` is exactly the sequence of
\* the filters' fragments.
C6_JoinRoundTripAnyStrings ==
    (VecParamDone /\ Len(arg) >= 1) =>
        /\ res.value # None
        /\ split(res.value[1], ",") = fragments(arg)

\* C6 amended: for every non-empty sequence of filters none of whose keys and
\* values holds a `,`, the filter value split on `,` is exactly the sequence
\* of the filters' fragments, same count and same order.
C6_JoinRoundTrip ==
    (VecParamDone /\ Len(arg) >= 1 /\ comma_free(arg)) =>
        /\ res.value # None
        /\ split(res.value[1], ",") = fragments(arg)

\* C6 witness: two comma-free filters with different fragments were rendered
\* and split back
C6_Witness ==
    /\ VecParamDone /\ Len(arg) = 2 /\ comma_free(arg)
    /\ fragment(arg[1]) # fragment(arg[2])
    /\ split(res.value[1], ",") = <<fragment(arg[1]), fragment(arg[2])>>

\* C7: an empty sequence of filters renders as no parameter: param() gives no
\* `filter` key, in particular not `filter=`.
C7_EmptyFiltersNoParam ==
    (VecParamDone /\ arg = <<>>) =>
        /\ res.param # <<"f", "i", "l", "t", "e", "r", "=">>
        /\ ~starts_with(res.param, <<"f", "i", "l", "t", "e", "r">>)

\* the parameters of the slice have pairwise different keys
distinct_keys(ps) ==
    \A i, j \in 1..Len(ps) : i # j => Tuple_param_key(ps[i]) # Tuple_param_key(ps[j])

\* C8: for parameters of different kinds (filter, sort, order, pagination) the
\* rendered query string is the same for every order in which the same
\* parameters are supplied.
C8_CanonicalOrder ==
    (SliceRouteDone /\ distinct_keys(arg)) =>
        \A q \in [1..Len(arg) -> ParamTuples] :
            is_permutation(arg, q) => slice_route(q) = res.route

\* C9: RowsOffset{rows, offset} renders as the one parameter
\* rows=<rows>=offset=<offset>, with key rows=<rows> and value
\* offset=<offset>, and never as rows=<rows>&offset=<offset>.
C9_RowsOffsetComposite ==
    (ResultControlDone /\ arg.tag = "RowsOffset") =>
        LET parts == split(res.param, "=")
        IN  /\ Len(parts) = 4
            /\ parts[1] = <<"r", "o", "w", "s">>
            /\ is_decimal_of(parts[2], arg.rows)
            /\ parts[3] = <<"o", "f", "f", "s", "e", "t">>
            /\ is_decimal_of(parts[4], arg.offset)
            /\ res.key = parts[1] \o <<"=">> \o parts[2]
            /\ res.value = Some(parts[3] \o <<"=">> \o parts[4])
            /\ ~contains(res.param, "&")
            /\ (arg.rows = 20 /\ arg.offset = 40) =>
                   res.param = <<"r", "o", "w", "s", "=", "2", "0", "=", "o", "f", "f", "s", "e", "t", "=", "4", "0">>

\* C9 witness: RowsOffset{rows: 20, offset: 40} was rendered
C9_Witness ==
    /\ ResultControlDone /\ arg.tag = "RowsOffset"
    /\ arg.rows = 20 /\ arg.offset = 40
    /\ res.param = <<"r", "o", "w", "s", "=", "2", "0", "=", "o", "f", "f", "s", "e", "t", "=", "4", "0">>

\* C10: Rows(n) renders as rows=n, Offset(n) as offset=n, and Sample as
\* exactly `sample`, with no `=` and no value.
C10_PlainModes ==
    ResultControlDone =>
        /\ arg.tag = "Rows" =>
              LET parts == split(res.param, "=")
              IN  /\ Len(parts) = 2 /\ parts[1] = <<"r", "o", "w", "s">>
                  /\ is_decimal_of(parts[2], arg.rows)
        /\ arg.tag = "Offset" =>
              LET parts == split(res.param, "=")
              IN  /\ Len(parts) = 2 /\ parts[1] = <<"o", "f", "f", "s", "e", "t">>
                  /\ is_decimal_of(parts[2], arg.offset)
        /\ arg.tag = "Sample" =>
              /\ res.param = <<"s", "a", "m", "p", "l", "e">>
              /\ res.value = None
              /\ ~contains(res.param, "=")

\* C10 witness: Sample was rendered as the bare key
C10_Witness ==
    /\ ResultControlDone /\ arg.tag = "Sample"
    /\ res.param = <<"s", "a", "m", "p", "l", "e">>

\* ------------------------------------------------------------ route claims
ResourceRouteDone == pc = "done" /\ op = "resource_route"

\* the lowercase name of a resource kind, as the path segment of the API
kind_segment(c) ==
    CASE c = "Works" -> <<"w", "o", "r", "k", "s">>
      [] c = "Funders" -> <<"f", "u", "n", "d", "e", "r", "s">>
      [] c = "Prefixes" -> <<"p", "r", "e", "f", "i", "x", "e", "s">>
      [] c = "Members" -> <<"m", "e", "m", "b", "e", "r", "s">>
      [] c = "Types" -> <<"t", "y", "p", "e", "s">>
      [] c = "Journals" -> <<"j", "o", "u", "r", "n", "a", "l", "s">>

\* C11: Single(k) routes to /<k>, Combined{primary: p, identifier: id} routes
\* to /<p>/<id>/works with the identifier unchanged, and routing never fails;
\* Funders with 10.13039/100000001 gives /funders/10.13039/100000001/works.
C11_ResourceRouting ==
    ResourceRouteDone =>
        /\ res.tag = "Ok"
        /\ arg.tag = "Single" =>
              res.route = <<"/">> \o kind_segment(arg.component)
        /\ arg.tag = "Combined" =>
              LET head == <<"/">> \o kind_segment(arg.primary) \o <<"/">>
                  n == Len(res.route)
              IN  /\ n = Len(head) + Len(arg.identifier) + 6
                  /\ SubSeq(res.route, 1, Len(head)) = head
                  /\ SubSeq(res.route, Len(head) + 1, n - 6) = arg.identifier
                  /\ SubSeq(res.route, n - 5, n) = <<"/", "w", "o", "r", "k", "s">>
        /\ (arg.tag = "Combined" /\ arg.primary = "Funders"
            /\ arg.identifier = <<"1", "0", ".", "1", "3", "0", "3", "9", "/", "1", "0", "0", "0", "0", "0", "0", "0", "1">>) =>
              res.route = <<"/", "f", "u", "n", "d", "e", "r", "s", "/", "1", "0", ".", "1", "3", "0", "3", "9", "/", "1", "0", "0", "0", "0", "0", "0", "0", "1", "/", "w", "o", "r", "k", "s">>

\* C11 witness: the funder DOI was routed under Funders
C11_Witness ==
    /\ ResourceRouteDone /\ arg.tag = "Combined" /\ arg.primary = "Funders"
    /\ res.route = <<"/", "f", "u", "n", "d", "e", "r", "s", "/", "1", "0", ".", "1", "3", "0", "3", "9", "/", "1", "0", "0", "0", "0", "0", "0", "0", "1", "/", "w", "o", "r", "k", "s">>

\* ------------------------------------------------------------ topic claims
FormatQueryDone == pc = "done" /\ op = "format_query"
FormatQueriesDone == pc = "done" /\ op = "format_queries"

\* s holds a non-whitespace character at or after position i
word_from(s, i) == \E j \in i..Len(s) : s[j] \notin WhitespaceChars

\* s read character by character: a non-whitespace character is kept, the
\* first character of a whitespace run that stands between two words becomes
\* one `+`, every other whitespace character is dropped
RECURSIVE collapse_from(_, _)
collapse_from(s, i) ==
    IF i > Len(s) THEN <<>>
    ELSE (IF s[i] \notin WhitespaceChars THEN <<s[i]>>
          ELSE IF i > 1 /\ s[i - 1] \notin WhitespaceChars /\ word_from(s, i)
               THEN <<"+">>
          ELSE <<>>) \o collapse_from(s, i + 1)

collapse_runs(s) == collapse_from(s, 1)

TypeRoundTripDone == pc = "done" /\ op = "type_round_trip"
TypeFromStrDone == pc = "done" /\ op = "type_from_str"

\* C13: for each of the 28 types parsing its identifier gives the type back,
\* and parsing a string that is the identifier of no type fails with
\* InvalidTypeName carrying exactly that string, never with a type.
C13_TypeParseRoundTrip ==
    /\ Cardinality(Types) = 28
    /\ TypeRoundTripDone => res = [tag |-> "Ok", type |-> arg]
    /\ (TypeFromStrDone /\ \A t \in Types : Type_id(t) # arg) =>
          res = [tag |-> "Err", kind |-> "InvalidTypeName", name |-> arg]
    /\ (TypeFromStrDone /\ \E t \in Types : Type_id(t) = arg) =>
          res.tag = "Ok" /\ Type_id(res.type) = arg

\* C13 witness: a string one character short of an identifier was rejected
\* with its own text
C13_Witness ==
    /\ TypeFromStrDone
    /\ arg = <<"j", "o", "u", "r", "n", "a", "l", "-", "a", "r", "t", "i", "c", "l">>
    /\ res = [tag |-> "Err", kind |-> "InvalidTypeName", name |-> <<"j", "o", "u", "r", "n", "a", "l", "-", "a", "r", "t", "i", "c", "l">>]

\* ------------------------------------------------------------ sort claims
SortParamDone == pc = "done" /\ op = "sort_param"
OrderParamDone == pc = "done" /\ op = "order_param"

\* C14: a Sort renders as sort=<token> with a token of its own, different for
\* each of the ten fields, an Order renders as order=asc or order=desc, and
\* neither rendering holds the other parameter.
C14_SortOrderIndependent ==
    /\ Cardinality(Sorts) = 10
    /\ SortParamDone =>
          LET parts == split(res.param, "=")
          IN  /\ Len(parts) = 2
              /\ parts[1] = <<"s", "o", "r", "t">>
              /\ Len(parts[2]) >= 1
              /\ \A x \in Sorts \ {arg} : Sort_param(x) # res.param
              /\ ~contains(res.param, "&")
              /\ parts[2] \notin {<<"a", "s", "c">>, <<"d", "e", "s", "c">>}
    /\ OrderParamDone =>
          /\ arg = "Asc" => res.param = <<"o", "r", "d", "e", "r", "=", "a", "s", "c">>
          /\ arg = "Desc" => res.param = <<"o", "r", "d", "e", "r", "=", "d", "e", "s", "c">>
          /\ ~contains(res.param, "&")

\* C14 witness: the sort field PublishedOnline was rendered alone
C14_Witness ==
    /\ SortParamDone /\ arg = "PublishedOnline"
    /\ res.param = <<"s", "o", "r", "t", "=", "p", "u", "b", "l", "i", "s", "h", "e", "d", "-", "o", "n", "l", "i", "n", "e">>

\* the topic t holds a non-whitespace character
nonblank(t) == \E i \in 1..Len(t) : t[i] \notin WhitespaceChars

\* C15: for topics that each hold a non-whitespace character, format_queries
\* equals format_query of the topics joined by one space; the result then
\* holds no whitespace and, where no topic holds a `+` of its own, no leading
\* `+`, no trailing `+` and no two adjacent `+`.
C15_QueriesFoldConcatenation ==
    (FormatQueriesDone /\ \A i \in 1..Len(arg) : nonblank(arg[i])) =>
        /\ res = format_query(join(arg, <<" ">>))
        /\ \A i \in 1..Len(res) : res[i] \notin WhitespaceChars
        /\ (\A i \in 1..Len(arg) : ~contains(arg[i], "+")) =>
              /\ Len(res) >= 1 => (res[1] # "+" /\ res[Len(res)] # "+")
              /\ \A i \in 1..(Len(res) - 1) : ~(res[i] = "+" /\ res[i + 1] = "+")

\* C15 witness: two topics with words, the first with a whitespace run inside
\* and around it, were combined
C15_Witness ==
    /\ FormatQueriesDone /\ Len(arg) = 2
    /\ arg[1] = <<"a", "\t", " ", "b">> /\ arg[2] = <<" ", "a", " ">>
    /\ res = <<"a", "+", "b", "+", "a">>

\* ------------------------------------------------------------ container claims
DateFieldDone == pc = "done" /\ op = "date_as_date_field"
PartialDateFieldDone == pc = "done" /\ op = "partial_date_as_date_field"

\* the outcome of as_date on the date-parts p, as the date claims describe it
\* case by case
normalized(p) ==
    IF Len(p) = 0 THEN [tag |-> "None"]
    ELSE IF \E i \in 1..Len(p) : naive(p[i]).tag # "Some" THEN
        LET k == CHOOSE i \in 1..Len(p) :
                    /\ naive(p[i]).tag # "Some"
                    /\ \A j \in 1..(i - 1) : naive(p[j]).tag = "Some"
        IN  [tag |-> naive(p[k]).tag]
    ELSE IF Len(p) = 1 THEN [tag |-> "Single", date |-> naive(p[1]).date]
    ELSE IF Len(p) = 2 THEN
        [tag |-> "Range", from |-> naive(p[1]).date, to |-> naive(p[2]).date]
    ELSE [tag |-> "Multi", dates |-> [i \in 1..Len(p) |-> naive(p[i]).date]]

\* C16: Date::as_date_field and PartialDate::as_date_field return exactly what
\* DateParts::as_date returns on their date_parts, whatever the Date's
\* timestamp and date_time, and no call changes the value it is called on.
C16_ContainersNormalizeAlike ==
    /\ [](DateFieldDone =>
            /\ res = normalized(arg.date_parts)
            /\ \A ts \in Timestamps, dt \in DateTimes :
                  Date_as_date_field([arg EXCEPT !.timestamp = ts, !.date_time = dt]) = res)
    /\ [](PartialDateFieldDone => res = normalized(arg.date_parts))
    /\ [](AsDateDone => res = normalized(arg))
    /\ [][arg' = arg]_vars

\* C16 witness: a Date with a zero timestamp and a full date was normalized
C16_Witness ==
    /\ DateFieldDone /\ arg.timestamp = 0
    /\ arg.date_parts = <<<<Some(2017), Some(10), Some(11)>>>>
    /\ res = [tag |-> "Single", date |-> [year |-> 2017, month |-> 10, day |-> 11]]

====
